---- MODULE Spec2Model ----
(***************************************************************************)
(* A model of skyproj's gridline helper (skygrid.py) and of its HEALPix    *)
(* raster utilities (hpx_utils.py).                                        *)
(*                                                                         *)
(* Numbers.  Coordinates are integers.  Where the source divides, the      *)
(* model keeps the exact quotient as a reduced fraction [num, den], so     *)
(* floating-point rounding is abstracted to exact arithmetic.  Python's    *)
(* None is the empty tuple and a present value x is the tuple <<x>>.       *)
(***************************************************************************)
EXTENDS Integers, Sequences, FiniteSets, TLC

VARIABLES
    n_grid_lon_default,  \* self._n_grid_lon_default
    n_grid_lat_default,  \* self._n_grid_lat_default
    wrap,                \* self._wrap
    full_circle,         \* self._full_circle
    delta_cut,           \* self._delta_cut
    grid_locator_lon,    \* self._grid_locator_lon
    grid_locator_lat,    \* self._grid_locator_lat
    grid_info,           \* self._grid_info
    old_limits,          \* self._old_limits
    last,                \* what the last call on the helper did
    hist,                \* history of the helper: calls, recomputations
    pc,                  \* position of a call of one of the pure functions
    args,                \* the arguments of that call
    ret                  \* what that call returned or raised

helper_vars == <<n_grid_lon_default, n_grid_lat_default, wrap, full_circle,
                 delta_cut, grid_locator_lon, grid_locator_lat, grid_info,
                 old_limits, last, hist>>
call_vars == <<pc, args, ret>>
vars == <<n_grid_lon_default, n_grid_lat_default, wrap, full_circle,
          delta_cut, grid_locator_lon, grid_locator_lat, grid_info,
          old_limits, last, hist, pc, args, ret>>

----------------------------------------------------------------------------
(* Bounds of the model.                                                    *)

MaxCalls == 3       \* calls made on one helper
MaxLen == 4         \* points of a polyline handed to _cut_grid_line_jumps
MaxCrossLen == 3    \* points of a polyline handed to _find_line_box_crossings
MaxRangePix == 2    \* pixels handed to healpix_pixels_range
MaxPix == 3         \* entries of the pixel array handed to healpix_to_xy
MaxRaster == 2      \* cells of the raster healpix_to_xy looks up
MaxSamples == 3     \* samples handed to healpix_bin
NPixels == 3        \* pixels of the map healpix_bin fills
MaxXsize == 5       \* xsize of a rasterizer call

----------------------------------------------------------------------------
(* Values shared by the whole model.                                       *)

None == <<>>
Some(x) == <<x>>

\* np.nan, as a coordinate: a value no coordinate of the model takes.
NaN == -999999

Abs(a) == IF a < 0 THEN -a ELSE a
Min2(a, b) == IF a <= b THEN a ELSE b
Max2(a, b) == IF a >= b THEN a ELSE b

RECURSIVE Gcd(_, _)
Gcd(a, b) == IF b = 0 THEN a ELSE Gcd(b, a % b)

\* The quotient n / d (d # 0) as a reduced fraction with a positive den.
Frac(n, d) ==
    LET g == Gcd(Abs(n), Abs(d))
        s == IF d < 0 THEN -1 ELSE 1
    IN  [num |-> (s * n) \div g, den |-> (s * d) \div g]

FracLeq(p, q) == p.num * q.den <= q.num * p.den
FracOfInt(n) == [num |-> n, den |-> 1]

\* np.ceil of a fraction.
Ceil(p) == -((-p.num) \div p.den)

\* np.clip(p, lo, hi)
Clip(p, lo, hi) == IF FracLeq(p, lo) THEN lo ELSE IF FracLeq(hi, p) THEN hi ELSE p

RECURSIVE SeqsUpTo(_, _)
\* All sequences over S of length 0..n.
SeqsUpTo(S, n) ==
    IF n = 0 THEN {<<>>}
    ELSE LET shorter == SeqsUpTo(S, n - 1)
         IN  shorter \cup {Append(s, x) : s \in {t \in shorter : Len(t) = n - 1}, x \in S}

----------------------------------------------------------------------------
(* skygrid.py: _find_line_box_crossings                                    *)

\* np.degrees(np.arctan2(dy, dx)) in thousandths of a degree, for the
\* directions the model's polylines take.
AtanFirstQuadrant(a, b) ==
    CASE a = 0 /\ b = 1 -> 0
      [] a = 1 /\ b = 2 -> 26565
      [] a = 1 /\ b = 1 -> 45000
      [] a = 2 /\ b = 1 -> 63435
      [] a = 1 /\ b = 0 -> 90000

Arctan2Degrees(dy, dx) ==
    LET g == Gcd(Abs(dy), Abs(dx))
        base == AtanFirstQuadrant(Abs(dy) \div g, Abs(dx) \div g)
    IN  IF dx >= 0 /\ dy >= 0 THEN base
        ELSE IF dx < 0 /\ dy >= 0 THEN 180000 - base
        ELSE IF dx < 0 /\ dy < 0 THEN base - 180000
        ELSE -base

\* The angle taken of (dx, dy) as it stands, without the [::-1].
ThetaUnreversed(dxy) == Arctan2Degrees(dxy[1], dxy[2])

\* Line 69: np.degrees(np.arctan2(*dxys[idx][::-1])), dxys[idx] being (dx, dy).
Theta(dxy) == Arctan2Degrees(dxy[2], dxy[1])

\* Bbox.min, Bbox.max of Bbox.from_extents(x1, y1, x2, y2).
BboxFromExtents(x1, y1, x2, y2) ==
    [min |-> <<Min2(x1, x2), Min2(y1, y2)>>, max |-> <<Max2(x1, x2), Max2(y1, y2)>>]

\* The crossings of one side: `ax` is the index of the "this" coordinate
\* (1: x, left and right; 2: y, bottom and top), u0 the bound, and lower
\* says which test marks a point inside (us > umin, or us < umax).
RECURSIVE SideCrossingsFrom(_, _, _, _, _, _)
SideCrossingsFrom(xys, bbox, ax, u0, lower, idx) ==
    IF idx >= Len(xys) THEN <<>>
    ELSE
      LET ot == 3 - ax
          us0 == xys[idx][ax]
          us1 == xys[idx + 1][ax]
          in0 == IF lower THEN us0 > u0 ELSE us0 < u0
          in1 == IF lower THEN us1 > u0 ELSE us1 < u0
          dus == us1 - us0
          dvs == xys[idx + 1][ot] - xys[idx][ot]
          rest == SideCrossingsFrom(xys, bbox, ax, u0, lower, idx + 1)
      IN  IF in0 = in1 THEN rest
          ELSE
            LET v == Frac(xys[idx][ot] * dus + (u0 - us0) * dvs, dus)
                inrange == /\ FracLeq(FracOfInt(bbox.min[ot]), v)
                           /\ FracLeq(v, FracOfInt(bbox.max[ot]))
                crossing == IF ax = 1 THEN <<FracOfInt(u0), v>> ELSE <<v, FracOfInt(u0)>>
                theta == Theta(<<xys[idx + 1][1] - xys[idx][1],
                                 xys[idx + 1][2] - xys[idx][2]>>)
            IN  IF inrange THEN <<[loc |-> crossing, theta |-> theta]>> \o rest
                ELSE rest

SideCrossings(xys, bbox, ax, u0, lower) ==
    SideCrossingsFrom(xys, bbox, ax, u0, lower, 1)

\* The four lists, in the order the loops append them.
FindLineBoxCrossings(xys, bbox) ==
    << SideCrossings(xys, bbox, 1, bbox.min[1], TRUE),
       SideCrossings(xys, bbox, 1, bbox.max[1], FALSE),
       SideCrossings(xys, bbox, 2, bbox.min[2], TRUE),
       SideCrossings(xys, bbox, 2, bbox.max[2], FALSE) >>

----------------------------------------------------------------------------
(* skygrid.py: SkyGridHelper._cut_grid_line_jumps                          *)
(* A polyline is [x |-> xs, y |-> ys], the pair of arrays gl[0][0] and     *)
(* gl[0][1].                                                               *)

\* np.hypot(dx, dy) > delta_cut, for delta_cut >= 0, compared by squares.
JumpsAt(gl, cut, i) ==
    LET dx == gl.x[i + 1] - gl.x[i]
        dy == gl.y[i + 1] - gl.y[i]
    IN  dx * dx + dy * dy > cut * cut

\* split: the (1-based) indices i whose step to i + 1 is a jump.
Split(gl, cut) == {i \in 1..(Len(gl.x) - 1) : JumpsAt(gl, cut, i)}

RECURSIVE InsertFrom(_, _, _, _)
\* np.insert(arr, split + 1, val): val goes in before every element whose
\* predecessor is in split.
InsertFrom(arr, split, val, i) ==
    IF i > Len(arr) THEN <<>>
    ELSE (IF (i - 1) \in split THEN <<val, arr[i]>> ELSE <<arr[i]>>)
         \o InsertFrom(arr, split, val, i + 1)

\* The marker put in at split instead of split + 1.
NpInsertAtSplit(arr, split, val) == InsertFrom(arr, {i - 1 : i \in split}, val, 1)

NpInsert(arr, split, val) == InsertFrom(arr, split, val, 1)

CutGridLineJumps(gl, cut) ==
    LET split == Split(gl, cut)
    IN  IF split = {} THEN gl
        ELSE [x |-> NpInsert(gl.x, split, NaN), y |-> NpInsert(gl.y, split, NaN)]

----------------------------------------------------------------------------
(* skygrid.py: SkyGridHelper._compute_n_grid_from_extent                   *)

DefaultNGridLat == 6
CylDeltaCut == 80

\* np.cos(np.deg2rad(d)) for the mean latitudes of the model's extents.
CosDeg(d) ==
    CASE d = 0 -> [num |-> 1, den |-> 1]
      [] Abs(d) = 60 -> [num |-> 1, den |-> 2]

\* np.mean(extent[2:]); the model's extents have an even sum.
MeanLat(extent) == (extent[3] + extent[4]) \div 2

\* Line 295: np.clip(np.abs(e[1] - e[0]) * latscale / (e[3] - e[2]), 1/3, 5/3)
ExtentRatio(extent) ==
    LET latscale == CosDeg(MeanLat(extent))
    IN  Clip(Frac(Abs(extent[2] - extent[1]) * latscale.num,
                  (extent[4] - extent[3]) * latscale.den),
             [num |-> 1, den |-> 3], [num |-> 5, den |-> 3])

Returned(nlon, nlat) == [exc |-> "none", n_grid_lon |-> nlon, n_grid_lat |-> nlat]
UnboundLocal == [exc |-> "UnboundLocalError", n_grid_lon |-> 0, n_grid_lat |-> 0]

\* The function binds its local n_grid_lat only when no latitude count was
\* given (lines 291-292) and its local n_grid_lon only when no longitude
\* count was given (lines 293-296); reading a local that was never bound
\* raises UnboundLocalError (line 296, or the return at line 298).
ComputeNGridFromExtent(extent, lat_default, lon_default) ==
    LET n_grid_lat == IF lat_default = None THEN Some(DefaultNGridLat) ELSE None
    IN  IF lon_default = None
        THEN IF n_grid_lat = None THEN UnboundLocal
             ELSE LET r == ExtentRatio(extent)
                      n_grid_lon == Ceil(Frac(r.num * n_grid_lat[1], r.den))
                  IN  Returned(n_grid_lon, n_grid_lat[1])
        ELSE UnboundLocal

----------------------------------------------------------------------------
(* skygrid.py: SkyGridHelper.get_grid_info                                 *)

\* np.column_stack([lx, ly])
ColumnStack(line) == [i \in 1..Len(line.x) |-> <<line.x[i], line.y[i]>>]

\* Bbox.expanded(1 + 2e-10, 1 + 2e-10): each side moves outwards by 1e-10 of
\* the box's extent.  The model's coordinates are multiples of 10, and the
\* box grows by one unit, less than the distance of any two of them.
Expanded(bb) ==
    [min |-> <<bb.min[1] - 1, bb.min[2] - 1>>, max |-> <<bb.max[1] + 1, bb.max[2] + 1>>]

SideNames == <<"left", "right", "bottom", "top">>

RECURSIVE TicksOfSide(_, _, _, _)
\* gi["ticks"][side] after the loop over the lines: the crossings of line
\* k = 1, 2, ... on that side, each with its level and its label.
TicksOfSide(lines, bb, side, k) ==
    IF k > Len(lines) THEN <<>>
    ELSE LET crossings == FindLineBoxCrossings(ColumnStack(lines[k]), bb)[side]
         IN  [i \in 1..Len(crossings) |->
                 [level |-> k, loc |-> crossings[i], label |-> "lab"]]
             \o TicksOfSide(lines, bb, side, k + 1)

AxisInfo(lines, bb) ==
    [lines |-> lines,
     ticks |-> [left |-> TicksOfSide(lines, bb, 1, 1),
                right |-> TicksOfSide(lines, bb, 2, 1),
                bottom |-> TicksOfSide(lines, bb, 3, 1),
                top |-> TicksOfSide(lines, bb, 4, 1)]]

\* ext is what the collaborators return for the viewport: the extremes of
\* the extreme finder and the raw lines of the forward transform.
GetGridInfo(x1, y1, x2, y2, ext) ==
    LET bb == Expanded(BboxFromExtents(x1, y1, x2, y2))
    IN  [extremes |-> ext.extremes,
         lon |-> AxisInfo(ext.lon_lines, bb),
         lat |-> AxisInfo(ext.lat_lines, bb)]

----------------------------------------------------------------------------
(* skygrid.py: SkyGridHelper.get_gridlines                                 *)

RECURSIVE CutAll(_, _)
CutAll(lines, cut) ==
    IF lines = <<>> THEN <<>>
    ELSE <<CutGridLineJumps(Head(lines), cut)>> \o CutAll(Tail(lines), cut)

GetGridlinesNoCheck(gi, cut, axis) ==
    IF gi = None THEN [exc |-> "none", lines |-> <<>>]
    ELSE [exc |-> "none",
          lines |-> (IF axis \in {"both", "x"} THEN CutAll(gi[1].lon.lines, cut) ELSE <<>>)
                    \o (IF axis \in {"both", "y"} THEN CutAll(gi[1].lat.lines, cut) ELSE <<>>)]

GetGridlinesResult(gi, cut, axis) ==
    IF gi = None THEN [exc |-> "RuntimeError", lines |-> <<>>]
    ELSE [exc |-> "none",
          lines |-> (IF axis \in {"both", "x"} THEN CutAll(gi[1].lon.lines, cut) ELSE <<>>)
                    \o (IF axis \in {"both", "y"} THEN CutAll(gi[1].lat.lines, cut) ELSE <<>>)]

----------------------------------------------------------------------------
(* The helper as a state machine.                                          *)

\* Projections handed to the constructor: name and radius.
Projections == {[name |-> "cyl", radius |-> 200], [name |-> "moll", radius |-> 200]}

\* The axes a call may pass: get_xlim(), get_ylim() and get_extent().
Axes ==
    { [xlim |-> <<-100, 100>>, ylim |-> <<-50, 50>>, extent |-> <<-100, 100, -50, 50>>],
      [xlim |-> <<0, 50>>, ylim |-> <<40, 80>>, extent |-> <<0, 50, 40, 80>>],
      [xlim |-> <<10, 0>>, ylim |-> <<-40, 40>>, extent |-> <<0, 10, -40, 40>>] }

Limits(axis) == <<axis.xlim[1], axis.xlim[2], axis.ylim[1], axis.ylim[2]>>

\* Raw lines as the forward transform returns them: a parallel inside the
\* widest viewport's longitudes and beyond, a parallel that runs over the
\* wrap seam (a jump of 240), and a meridian.
ParallelLine == [x |-> <<-120, -60, 0, 60, 120>>, y |-> <<0, 0, 0, 0, 0>>]
SeamLine == [x |-> <<60, 120, -120, -60>>, y |-> <<20, 20, 20, 20>>]
MeridianLine == [x |-> <<30, 30, 30>>, y |-> <<-60, 0, 60>>]

LonLineFamilies == {<<>>, <<MeridianLine>>}
LatLineFamilies == {<<>>, <<SeamLine>>, <<ParallelLine, SeamLine>>}

\* raises: a collaborator called by get_grid_info (the extreme finder, a
\* locator, the forward transform) raises instead of returning.
Externals(axis) ==
    [extremes : {axis.extent}, lon_lines : LonLineFamilies, lat_lines : LatLineFamilies,
     raises : {FALSE}]
    \cup {[extremes |-> axis.extent, lon_lines |-> <<>>, lat_lines |-> <<>>, raises |-> TRUE]}

\* self._old_limits stored ahead of the call of _update_grid.
OldLimitsStoredFirst(old, limits) == Some(limits)

\* self._old_limits when get_grid_info has raised inside _update_grid at
\* line 178: the store at line 179 is not reached.
OldLimitsAfterRaise(old, limits) == old

NoCall == [op |-> "init", exc |-> "none", limits |-> <<>>, recomputed |-> FALSE,
           n_grid |-> Returned(0, 0), extent |-> <<>>, axis |-> "", lines |-> <<>>]

\* angle_helper.LocatorD(nbins, include_last)
LocatorD(nbins, include_last) == [nbins |-> nbins, include_last |-> include_last]

\* The fields as __init__ leaves them at line 111, before its own call of
\* update_lim at line 113.
HelperInit ==
    /\ n_grid_lon_default \in {None, Some(4)}
    /\ n_grid_lat_default \in {None, Some(3)}
    /\ wrap \in {0, 180}
    /\ full_circle \in BOOLEAN
    /\ \E projection \in Projections :
          delta_cut = IF projection.name = "cyl" THEN CylDeltaCut
                      ELSE projection.radius \div 2
    /\ grid_locator_lon = None
    /\ grid_locator_lat = None
    /\ grid_info = None
    /\ old_limits = None
    /\ last = NoCall
    /\ hist = [calls |-> 0, recomputes |-> 0, succeeded |-> FALSE]

HelperIdle ==
    /\ n_grid_lon_default = None
    /\ n_grid_lat_default = None
    /\ wrap = 0
    /\ full_circle = FALSE
    /\ delta_cut = CylDeltaCut
    /\ grid_locator_lon = None
    /\ grid_locator_lat = None
    /\ grid_info = None
    /\ old_limits = None
    /\ last = NoCall
    /\ hist = [calls |-> 0, recomputes |-> 0, succeeded |-> FALSE]

CallIdle == pc = "idle" /\ args = <<>> /\ ret = <<>>

Init == HelperInit /\ CallIdle

\* update_lim(axis), lines 157-182.  The first call is the constructor's.
UpdateLim(axis, ext) ==
    LET limits == Limits(axis)
        n == ComputeNGridFromExtent(axis.extent, n_grid_lat_default, n_grid_lon_default)
        include_last_lon == (wrap = 180 /\ ~full_circle)
        call == [op |-> "update_lim", exc |-> "none", limits |-> limits,
                 recomputed |-> FALSE, n_grid |-> Returned(0, 0),
                 extent |-> axis.extent, axis |-> "", lines |-> <<>>]
    IN  /\ hist.calls < MaxCalls
        /\ IF old_limits = Some(limits)
           THEN /\ last' = call
                /\ hist' = [hist EXCEPT !.calls = @ + 1]
                /\ UNCHANGED <<grid_locator_lon, grid_locator_lat, grid_info, old_limits>>
           ELSE IF n.exc # "none"
           THEN /\ last' = [call EXCEPT !.exc = n.exc, !.n_grid = n]
                /\ hist' = [hist EXCEPT !.calls = @ + 1]
                /\ UNCHANGED <<grid_locator_lon, grid_locator_lat, grid_info, old_limits>>
           ELSE IF ext.raises
           THEN /\ grid_locator_lon' = Some(LocatorD(n.n_grid_lon, include_last_lon))
                /\ grid_locator_lat' = Some(LocatorD(n.n_grid_lat, TRUE))
                /\ grid_info' = grid_info
                /\ old_limits' = OldLimitsAfterRaise(old_limits, limits)
                /\ last' = [call EXCEPT !.exc = "CollaboratorError", !.n_grid = n]
                /\ hist' = [hist EXCEPT !.calls = @ + 1]
           ELSE /\ grid_locator_lon' = Some(LocatorD(n.n_grid_lon, include_last_lon))
                /\ grid_locator_lat' = Some(LocatorD(n.n_grid_lat, TRUE))
                /\ grid_info' = Some(GetGridInfo(limits[1], limits[3], limits[2], limits[4], ext))
                /\ old_limits' = Some(limits)
                /\ last' = [call EXCEPT !.recomputed = TRUE, !.n_grid = n]
                /\ hist' = [calls |-> hist.calls + 1, recomputes |-> hist.recomputes + 1,
                            succeeded |-> TRUE]
        /\ UNCHANGED <<n_grid_lon_default, n_grid_lat_default, wrap, full_circle, delta_cut>>
        /\ UNCHANGED call_vars

\* get_gridlines(axis), lines 115-128.
GetGridlines(axis) ==
    LET r == GetGridlinesResult(grid_info, delta_cut, axis)
    IN  /\ hist.calls < MaxCalls
        /\ last' = [NoCall EXCEPT !.op = "get_gridlines", !.exc = r.exc,
                                  !.axis = axis, !.lines = r.lines]
        /\ hist' = [hist EXCEPT !.calls = @ + 1]
        /\ UNCHANGED <<n_grid_lon_default, n_grid_lat_default, wrap, full_circle, delta_cut,
                       grid_locator_lon, grid_locator_lat, grid_info, old_limits>>
        /\ UNCHANGED call_vars

Next ==
    \/ \E axis \in Axes : \E ext \in Externals(axis) : UpdateLim(axis, ext)
    \/ \E axis \in {"both", "x", "y"} : GetGridlines(axis)

Spec == Init /\ [][Next]_vars

----------------------------------------------------------------------------
(* Claims about the helper, checked under Spec.                            *)

\* A step that is a call of update_lim.
UpdateLimStep == last'.op = "update_lim" /\ hist'.calls = hist.calls + 1

\* C1: a call of update_lim whose four limits equal the stored ones leaves
\* _grid_info, _old_limits and both locators alone; a call with any other
\* limits replaces _grid_info and stores the new limits.  The calls meant
\* are those whose collaborators return.
C1_UpdateLimMemoized ==
    [][(UpdateLimStep /\ last'.exc # "CollaboratorError") =>
         IF old_limits = Some(last'.limits)
         THEN UNCHANGED <<grid_info, old_limits, grid_locator_lon, grid_locator_lat>>
         ELSE /\ last'.recomputed
              /\ grid_info' # None
              /\ old_limits' = Some(last'.limits)]_vars

\* The part of C1 the code keeps: an unchanged viewport is a no-op, and a
\* call that returns with a changed viewport has recomputed and stored it,
\* so that A, B, A recomputes three times.
C1_MemoizedWhenReturning ==
    [][UpdateLimStep =>
         IF old_limits = Some(last'.limits)
         THEN /\ UNCHANGED <<grid_info, old_limits, grid_locator_lon, grid_locator_lat>>
              /\ hist'.recomputes = hist.recomputes
         ELSE last'.exc = "none" =>
                /\ hist'.recomputes = hist.recomputes + 1
                /\ grid_info' # None
                /\ old_limits' = Some(last'.limits)]_vars

C1_RecomputedThrice == hist.recomputes = 3 /\ hist.calls = 3

\* The ratio as the claim states it: clamp(|dlon| * cos(mean_lat) / |dlat|, 1/3, 5/3).
ClaimedRatio(extent) ==
    LET c == CosDeg(MeanLat(extent))
    IN  Clip(Frac(Abs(extent[2] - extent[1]) * c.num, Abs(extent[4] - extent[3]) * c.den),
             [num |-> 1, den |-> 3], [num |-> 5, den |-> 3])

ClaimedNGridLat == IF n_grid_lat_default = None THEN 6 ELSE n_grid_lat_default[1]

ClaimedNGridLon(extent) ==
    IF n_grid_lon_default = None
    THEN LET r == ClaimedRatio(extent)
         IN  Ceil(Frac(ClaimedNGridLat * r.num, r.den))
    ELSE n_grid_lon_default[1]

\* The last call was an update_lim that computed the counts.
ComputedCounts == last.op = "update_lim" /\ (last.recomputed \/ last.exc # "none")

\* C2: whenever an update computes the counts, for every combination of
\* supplied and not supplied overrides, it gets a pair: the latitude count
\* is the supplied one or 6, the longitude count is the supplied one or
\* ceil(latitude count * ratio).
C2_NGridCounts ==
    ComputedCounts =>
        last.n_grid = Returned(ClaimedNGridLon(last.extent), ClaimedNGridLat)

\* The part of C2 the code keeps: with no override it returns
\* (ceil(6 * ratio), 6), and with any override it raises.
C2_CountsWithoutOverrides ==
    ComputedCounts =>
        IF n_grid_lat_default = None /\ n_grid_lon_default = None
        THEN last.n_grid = Returned(ClaimedNGridLon(last.extent), 6)
        ELSE last.exc = "UnboundLocalError"

IsPolyline(gl) == Len(gl.x) = Len(gl.y)

\* C6: get_gridlines raises the "not initialized" RuntimeError whenever no
\* update_lim has succeeded on the helper (_grid_info is still None), and
\* returns a list of polylines, one for each line of the selected axes,
\* after at least one update_lim succeeded.
C6_GetGridlinesInitialized ==
    /\ (grid_info = None) <=> ~hist.succeeded
    /\ last.op = "get_gridlines" =>
         IF hist.succeeded
         THEN /\ last.exc = "none"
              /\ \A i \in 1..Len(last.lines) : IsPolyline(last.lines[i])
              /\ Len(last.lines) =
                   (IF last.axis \in {"both", "x"} THEN Len(grid_info[1].lon.lines) ELSE 0)
                   + (IF last.axis \in {"both", "y"} THEN Len(grid_info[1].lat.lines) ELSE 0)
         ELSE last.exc = "RuntimeError" /\ last.lines = <<>>

C6_Witness ==
    /\ last.op = "get_gridlines"
    /\ hist.succeeded
    /\ last.exc = "none"
    /\ Len(last.lines) = 3

C6_RaisedBeforeUpdate ==
    last.op = "get_gridlines" /\ ~hist.succeeded /\ last.exc = "RuntimeError"

----------------------------------------------------------------------------
(* Calls of the pure functions: a call starts with its arguments drawn,    *)
(* and one step runs the function and keeps what it returned or raised.    *)

Done(r) ==
    /\ pc = "start"
    /\ pc' = "done"
    /\ ret' = r
    /\ UNCHANGED args
    /\ UNCHANGED helper_vars

\* Points of the polylines handed to _cut_grid_line_jumps: steps of length
\* 0, 80 (twice, one of them oblique), 90, 170 and more.
CutPoints == {<<0, 0>>, <<80, 0>>, <<48, 64>>, <<170, 0>>, <<0, 90>>}

PolylineOf(pts) == [x |-> [i \in 1..Len(pts) |-> pts[i][1]],
                    y |-> [i \in 1..Len(pts) |-> pts[i][2]]]

InitCut ==
    /\ HelperIdle
    /\ pc = "start"
    /\ ret = <<>>
    /\ \E pts \in SeqsUpTo(CutPoints, MaxLen) : \E cut \in {CylDeltaCut, 100} :
          args = [gl |-> PolylineOf(pts), delta_cut |-> cut]

CutGridLineJumpsCall == Done(CutGridLineJumps(args.gl, args.delta_cut))

SpecCut == InitCut /\ [][CutGridLineJumpsCall]_vars

\* The consecutive pairs of gl farther apart than the threshold.
FartherApart(gl, cut) ==
    {i \in 1..(Len(gl.x) - 1) :
        (gl.x[i + 1] - gl.x[i]) * (gl.x[i + 1] - gl.x[i])
        + (gl.y[i + 1] - gl.y[i]) * (gl.y[i + 1] - gl.y[i]) > cut * cut}

Markers(arr) == {i \in 1..Len(arr) : arr[i] = NaN}

\* C7: a polyline with no consecutive pair farther apart than delta_cut is
\* returned as it is; one with exactly one such pair comes back with exactly
\* one NaN, in x and in y, between the two points of the pair, and the two
\* parts around it are the original points in their order.
C7_CutGridLineJumps ==
    pc = "done" =>
        LET gl == args.gl
            far == FartherApart(gl, args.delta_cut)
            n == Len(gl.x)
        IN  /\ far = {} => ret = gl
            /\ Cardinality(far) = 1 =>
                 LET i == CHOOSE j \in far : TRUE
                 IN  /\ Len(ret.x) = n + 1 /\ Len(ret.y) = n + 1
                     /\ Markers(ret.x) = {i + 1} /\ Markers(ret.y) = {i + 1}
                     /\ SubSeq(ret.x, 1, i) \o SubSeq(ret.x, i + 2, n + 1) = gl.x
                     /\ SubSeq(ret.y, 1, i) \o SubSeq(ret.y, i + 2, n + 1) = gl.y

C7_Witness ==
    /\ pc = "done"
    /\ Len(args.gl.x) = 4
    /\ FartherApart(args.gl, args.delta_cut) = {2}
    /\ ret.x[3] = NaN

----------------------------------------------------------------------------
(* _find_line_box_crossings as a call.                                     *)

\* Points of the polylines: a grid around the boxes, and on their sides.
CrossPoints == {<<x, y>> : x \in {-2, 0, 2}, y \in {-2, 0, 2}}

\* The box of the example, and one whose left and right sides pass through
\* points of the grid.
CrossBoxes == {[min |-> <<-1, -1>>, max |-> <<1, 1>>], [min |-> <<0, -1>>, max |-> <<2, 1>>]}

InitCross ==
    /\ HelperIdle
    /\ pc = "start"
    /\ ret = <<>>
    /\ \E xys \in SeqsUpTo(CrossPoints, MaxCrossLen) : \E bbox \in CrossBoxes :
          args = [xys |-> xys, bbox |-> bbox]

FindLineBoxCrossingsCall == Done(FindLineBoxCrossings(args.xys, args.bbox))

SpecCross == InitCross /\ [][FindLineBoxCrossingsCall]_vars

\* For side s (1 left, 2 right, 3 bottom, 4 top): the coordinate its
\* boundary line fixes, the value it fixes it to, and the extent of the box
\* along the other coordinate.
SideCoord(s) == IF s <= 2 THEN 1 ELSE 2
SideBound(bbox, s) == IF s \in {1, 3} THEN bbox.min[SideCoord(s)] ELSE bbox.max[SideCoord(s)]

\* A point is on the box's side of the boundary line of side s, or it is on
\* the line or beyond it.
OnBoxSide(pt, bbox, s) ==
    IF s \in {1, 3} THEN pt[SideCoord(s)] > SideBound(bbox, s)
    ELSE pt[SideCoord(s)] < SideBound(bbox, s)

\* dus times the other coordinate of the point where the line through
\* xys[i] and xys[i + 1] meets the boundary line of side s.
ScaledMeet(xys, bbox, s, i) ==
    LET c == SideCoord(s)
        o == 3 - c
    IN  xys[i][o] * (xys[i + 1][c] - xys[i][c])
        + (SideBound(bbox, s) - xys[i][c]) * (xys[i + 1][o] - xys[i][o])

\* The segments that cross side s: endpoints on opposite sides of its
\* boundary line, meeting it within the box's extent.
CrossingSegments(xys, bbox, s) ==
    {i \in 1..(Len(xys) - 1) :
        /\ OnBoxSide(xys[i], bbox, s) # OnBoxSide(xys[i + 1], bbox, s)
        /\ LET c == SideCoord(s)
               o == 3 - c
               dus == xys[i + 1][c] - xys[i][c]
               w == ScaledMeet(xys, bbox, s, i)
           IN  IF dus > 0
               THEN bbox.min[o] * dus <= w /\ w <= bbox.max[o] * dus
               ELSE bbox.max[o] * dus <= w /\ w <= bbox.min[o] * dus}

KthSmallest(S, k) == CHOOSE i \in S : Cardinality({j \in S : j < i}) = k - 1

\* C8: the four lists are those of the left, right, bottom and top side.  On
\* each side there is one crossing for each segment whose endpoints lie on
\* opposite sides of the boundary line and whose interpolated other
\* coordinate lies within the box, in the order of the segments; its
\* position is on the boundary line, within the box, on the segment's line;
\* its angle is atan2(dy, dx) of the segment in degrees.  Fewer than 2
\* points give four empty lists, and (-2,0)->(2,0) against [-1,1]x[-1,1]
\* gives a left crossing at (-1,0) and a right crossing at (1,0), angle 0.
C8_FindLineBoxCrossings ==
    pc = "done" =>
        LET xys == args.xys
            bbox == args.bbox
        IN  /\ Len(ret) = 4
            /\ \A s \in 1..4 :
                 LET segs == CrossingSegments(xys, bbox, s)
                     c == SideCoord(s)
                     o == 3 - c
                 IN  /\ Len(ret[s]) = Cardinality(segs)
                     /\ \A k \in 1..Len(ret[s]) :
                          LET i == KthSmallest(segs, k)
                              at == ret[s][k].loc
                              dx == xys[i + 1][1] - xys[i][1]
                              dy == xys[i + 1][2] - xys[i][2]
                          IN  /\ at[c] = FracOfInt(SideBound(bbox, s))
                              /\ FracLeq(FracOfInt(bbox.min[o]), at[o])
                              /\ FracLeq(at[o], FracOfInt(bbox.max[o]))
                              /\ at[o].num * (xys[i + 1][c] - xys[i][c])
                                   = ScaledMeet(xys, bbox, s, i) * at[o].den
                              /\ ret[s][k].theta = Arctan2Degrees(dy, dx)
            /\ Len(xys) < 2 => ret = <<<<>>, <<>>, <<>>, <<>>>>
            /\ (xys = <<<<-2, 0>>, <<2, 0>>>> /\ bbox = [min |-> <<-1, -1>>, max |-> <<1, 1>>])
                 => ret = << <<[loc |-> <<FracOfInt(-1), FracOfInt(0)>>, theta |-> 0]>>,
                             <<[loc |-> <<FracOfInt(1), FracOfInt(0)>>, theta |-> 0]>>,
                             <<>>, <<>> >>

C8_Witness ==
    /\ pc = "done"
    /\ args.xys = <<<<-2, 0>>, <<2, 0>>>>
    /\ args.bbox = [min |-> <<-1, -1>>, max |-> <<1, 1>>]
    /\ Len(ret[1]) = 1 /\ Len(ret[2]) = 1

\* A polyline that touches a side from inside and turns back is counted
\* twice there: a point on the boundary line counts as beyond it.
C8_TouchCountsTwice ==
    /\ pc = "done"
    /\ args.xys = <<<<2, 0>>, <<0, 0>>, <<2, 0>>>>
    /\ args.bbox = [min |-> <<0, -1>>, max |-> <<2, 1>>]
    /\ Len(ret[1]) = 2

----------------------------------------------------------------------------
(* hpx_utils.py: healpix_pixels_range                                      *)
(* Angles are integers in millionths of a degree.  hpgeom is a library:    *)
(* the centres pixel_to_angle returns and the radius max_pixel_radius      *)
(* returns are arguments of the model.                                     *)

Deg == 1000 * 1000
\* 1e-5 degrees
Small == Deg \div 100000

RECURSIVE InsertSorted(_, _)
InsertSorted(s, x) ==
    IF s = <<>> THEN <<x>>
    ELSE IF x <= Head(s) THEN <<x>> \o s
    ELSE <<Head(s)>> \o InsertSorted(Tail(s), x)

RECURSIVE NpSort(_)
NpSort(s) == IF s = <<>> THEN <<>> ELSE InsertSorted(NpSort(Tail(s)), Head(s))

\* np.min, np.max, np.median of a non-empty array
NpMin(s) == CHOOSE x \in {s[i] : i \in 1..Len(s)} : \A i \in 1..Len(s) : x <= s[i]
NpMax(s) == CHOOSE x \in {s[i] : i \in 1..Len(s)} : \A i \in 1..Len(s) : x >= s[i]
NpMedian(s) ==
    LET t == NpSort(s)
        n == Len(s)
    IN  IF n % 2 = 1 THEN t[(n + 1) \div 2] ELSE (t[n \div 2] + t[n \div 2 + 1]) \div 2

\* 1 / np.cos(np.deg2rad(d)) as a fraction, for the medians of the model's
\* latitudes: 0, 30 and 60 degrees and a millionth of a degree off the pole.
SecDeg(d) ==
    CASE d = 0 -> [num |-> 1, den |-> 1]
      [] Abs(d) = 30 * Deg -> [num |-> 231, den |-> 200]
      [] Abs(d) = 60 * Deg -> [num |-> 2, den |-> 1]
      [] Abs(d) = 90 * Deg - 1 -> [num |-> 57295780, den |-> 1]

\* Line 42: eps / np.cos(np.deg2rad(np.median(lat)))
EpsLon(eps, lat) == (eps * SecDeg(NpMedian(lat)).num) \div SecDeg(NpMedian(lat)).den

\* utils.wrap_values: an angle brought into [-180, 180).
WrapValues(v) == ((v + 180 * Deg) % (360 * Deg)) - 180 * Deg

\* Lines 44-45: the lower bound is clipped from below only, the upper bound
\* from above only.
LatRange(lat, eps) ==
    << Max2(NpMin(lat) - eps, -90 * Deg + Small),
       Min2(NpMax(lat) + eps, 90 * Deg - Small) >>

\* Line 49: (lon + wrap) % 360. - wrap
LonWrap(lon, wrap_angle) ==
    [i \in 1..Len(lon) |-> ((lon[i] + wrap_angle) % (360 * Deg)) - wrap_angle]

\* Lines 53-59
FullRange(lon_range, wrap_angle) ==
    \/ lon_range[1] < wrap_angle - 360 * Deg /\ lon_range[2] > wrap_angle - 360 * Deg
    \/ lon_range[1] < wrap_angle + 360 * Deg /\ lon_range[2] > wrap_angle + 360 * Deg
    \/ lon_range[2] - lon_range[1] >= 359 * Deg

HealpixPixelsRange(lon, lat, eps, wrap_angle) ==
    IF Len(lon) = 0
    THEN [exc |-> "NoValidPixelsError", lon_range |-> <<>>, lat_range |-> <<>>,
          full_range |-> FALSE]
    ELSE
      LET eps_lon == EpsLon(eps, lat)
          lon_wrap == LonWrap(lon, wrap_angle)
          lon_range == <<NpMin(lon_wrap) - eps_lon, NpMax(lon_wrap) + eps_lon>>
          full_range == FullRange(lon_range, wrap_angle)
          lon_0 == WrapValues((wrap_angle + 180 * Deg) % (360 * Deg))
      IN  [exc |-> "none",
           lon_range |-> IF full_range THEN <<lon_0 - 180 * Deg, lon_0 + 180 * Deg - Small>>
                         ELSE lon_range,
           lat_range |-> LatRange(lat, eps),
           full_range |-> full_range]

\* The resolutions of the model: the pixel radius, and the latitudes of the
\* centres.  A centre within a millionth of a degree of the pole belongs
\* to a resolution whose pixels are that small.
Resolutions ==
    { [eps |-> 1500000, lats |-> {0, 60 * Deg, -60 * Deg}],
      [eps |-> 600000, lats |-> {0, 60 * Deg}],
      [eps |-> 50000, lats |-> {0, 60 * Deg}],
      [eps |-> 1, lats |-> {90 * Deg - 1}] }

RangeLons == {1 * Deg, 180 * Deg, 359 * Deg}

InitRange ==
    /\ HelperIdle
    /\ pc = "start"
    /\ ret = <<>>
    /\ \E res \in Resolutions : \E w \in {0, 180 * Deg} :
         \E centres \in SeqsUpTo(RangeLons \X res.lats, MaxRangePix) :
            args = [lon |-> [i \in 1..Len(centres) |-> centres[i][1]],
                    lat |-> [i \in 1..Len(centres) |-> centres[i][2]],
                    eps |-> res.eps, wrap |-> w]

HealpixPixelsRangeCall == Done(HealpixPixelsRange(args.lon, args.lat, args.eps, args.wrap))

SpecRange == InitRange /\ [][HealpixPixelsRangeCall]_vars

Elements(s) == {s[i] : i \in 1..Len(s)}

\* C3: for pixels on both sides of the wrap seam (wrap 0, centres at
\* longitude 359 and 1), at every resolution, the longitude range returned
\* is the full-sky range, 360 degrees wide up to the 1e-5 taken off its
\* upper end, and not the window from the least to the greatest re-wrapped
\* longitude.
C3_FullSkyAcrossSeam ==
    (pc = "done" /\ args.wrap = 0 /\ Elements(args.lon) = {359 * Deg, 1 * Deg}) =>
        /\ ret.exc = "none"
        /\ ret.full_range
        /\ ret.lon_range[2] - ret.lon_range[1] = 360 * Deg - Small

\* The part of C3 the code keeps: the range is the full-sky one when the
\* margin eps_lon is at least half a degree, and otherwise the window from
\* 1 - eps_lon to 359 + eps_lon.
C3_FullSkyWhenCoarse ==
    (pc = "done" /\ args.wrap = 0 /\ Elements(args.lon) = {359 * Deg, 1 * Deg}) =>
        LET eps_lon == EpsLon(args.eps, args.lat)
        IN  IF 2 * eps_lon >= Deg
            THEN ret.lon_range[2] - ret.lon_range[1] = 360 * Deg - Small
            ELSE ret.lon_range = <<1 * Deg - eps_lon, 359 * Deg + eps_lon>>

\* C4: for every non-empty pixel set the window has
\* -90 + 1e-5 <= lat_min <= lat_max <= 90 - 1e-5, and its longitude width
\* is at least the spread of the re-wrapped longitudes and at most 360.
C4_WindowInvariant ==
    (pc = "done" /\ Len(args.lon) > 0) =>
        LET lon_wrap == LonWrap(args.lon, args.wrap)
            width == ret.lon_range[2] - ret.lon_range[1]
        IN  /\ ret.exc = "none"
            /\ -90 * Deg + Small <= ret.lat_range[1]
            /\ ret.lat_range[1] <= ret.lat_range[2]
            /\ ret.lat_range[2] <= 90 * Deg - Small
            /\ width >= NpMax(lon_wrap) - NpMin(lon_wrap)
            /\ width <= 360 * Deg

\* The part of C4 the code keeps: everything but lat_min <= lat_max.
C4_WindowBounds ==
    (pc = "done" /\ Len(args.lon) > 0) =>
        LET lon_wrap == LonWrap(args.lon, args.wrap)
            width == ret.lon_range[2] - ret.lon_range[1]
        IN  /\ ret.exc = "none"
            /\ -90 * Deg + Small <= ret.lat_range[1]
            /\ ret.lat_range[2] <= 90 * Deg - Small
            /\ width >= NpMax(lon_wrap) - NpMin(lon_wrap)
            /\ width <= 360 * Deg

----------------------------------------------------------------------------
(* hpx_utils.py: healpix_to_xy, from the uniqueness test to the masked     *)
(* array.  pix_raster is what hpgeom's angle_to_pixel returns for the      *)
(* centres of the raster, flattened; cells and entries count from 1.       *)

RECURSIVE InsertIndex(_, _, _)
InsertIndex(st, pixels, i) ==
    IF st = <<>> THEN <<i>>
    ELSE IF pixels[i] < pixels[Head(st)] THEN <<i>> \o st
    ELSE <<Head(st)>> \o InsertIndex(Tail(st), pixels, i)

RECURSIVE ArgsortFrom(_, _)
ArgsortFrom(pixels, i) ==
    IF i > Len(pixels) THEN <<>>
    ELSE InsertIndex(ArgsortFrom(pixels, i + 1), pixels, i)

\* np.argsort(pixels): the indices of pixels in ascending order of pixel.
Argsort(pixels) == ArgsortFrom(pixels, 1)

\* np.searchsorted(pixels, q, sorter=st): how many entries are below q, the
\* 0-based place of q in the sorted order.
SearchSorted(pixels, st, q) == Cardinality({k \in 1..Len(st) : pixels[st[k]] < q})

\* Lines 206-210: the search, and the results equal to pixels.size set to
\* pixels.size - 1 when the raster holds an id above every pixel.
Sub1(pixels, st, pix_raster) ==
    [c \in 1..Len(pix_raster) |->
        LET found == SearchSorted(pixels, st, pix_raster[c])
        IN  IF NpMax(pix_raster) > NpMax(pixels) /\ found = Len(pixels)
            THEN Len(pixels) - 1
            ELSE found]

Raised(e) == [exc |-> e, mask |-> <<>>, values_raster |-> <<>>]

HealpixToXYLookup(pixels, values, pix_raster) ==
    IF Cardinality({pixels[i] : i \in 1..Len(pixels)}) # Len(pixels)
    THEN Raised("ValueError: The pixels array must be unique.")
    ELSE IF Len(pix_raster) = 0 \/ Len(pixels) = 0
    THEN \* pix_raster.max() or pixels.max() of an array without elements
         Raised("ValueError: zero-size array to reduction operation maximum")
    ELSE
      LET st == Argsort(pixels)
          sub1 == Sub1(pixels, st, pix_raster)
      IN  IF \E c \in 1..Len(pix_raster) : sub1[c] >= Len(pixels)
          THEN Raised("IndexError")
          ELSE
            LET hit == {c \in 1..Len(pix_raster) : pixels[st[sub1[c] + 1]] = pix_raster[c]}
            IN  [exc |-> "none",
                 mask |-> [c \in 1..Len(pix_raster) |-> c \notin hit],
                 values_raster |-> [c \in 1..Len(pix_raster) |->
                                      IF c \in hit THEN values[st[sub1[c] + 1]] ELSE 0]]

\* Pixel ids of the model.
PixelIds == 0..3

\* values[i], told apart by its place: 101, 102, ...
ValuesOf(pixels) == [i \in 1..Len(pixels) |-> 100 + i]

InitLookup ==
    /\ HelperIdle
    /\ pc = "start"
    /\ ret = <<>>
    /\ \E pixels \in SeqsUpTo(PixelIds, MaxPix) : \E pix_raster \in SeqsUpTo(PixelIds, MaxRaster) :
          args = [pixels |-> pixels, values |-> ValuesOf(pixels), pix_raster |-> pix_raster]

HealpixToXYLookupCall == Done(HealpixToXYLookup(args.pixels, args.values, args.pix_raster))

SpecLookup == InitLookup /\ [][HealpixToXYLookupCall]_vars

IsUnique(s) == \A i, j \in 1..Len(s) : s[i] = s[j] => i = j

\* Cell c is looked up exactly: it is unmasked exactly when its id is one
\* of pixels, and then it holds the value paired with that id.
ExactAt(c) ==
    /\ ret.exc = "none"
    /\ ~ret.mask[c] <=> args.pix_raster[c] \in Elements(args.pixels)
    /\ ~ret.mask[c] =>
         \E i \in 1..Len(args.pixels) :
            args.pixels[i] = args.pix_raster[c] /\ ret.values_raster[c] = args.values[i]

\* C5: for every array of unique pixel ids, in any order, and every raster,
\* each cell of the raster is unmasked exactly when its id is one of the
\* array, and then holds the value paired with that id; ids above the
\* greatest, below the least or between two of the array are masked.
C5_LookupExact ==
    (pc = "done" /\ IsUnique(args.pixels)) =>
        \A c \in 1..Len(args.pix_raster) : ExactAt(c)

\* The part of C5 the code keeps: the same for an array that is not empty.
C5_LookupExactNonEmpty ==
    (pc = "done" /\ IsUnique(args.pixels) /\ Len(args.pixels) > 0) =>
        \A c \in 1..Len(args.pix_raster) : ExactAt(c)

\* An unsorted array, a raster with an id above its greatest (clamped, then
\* masked) and an id it holds.
C5_ClampedThenMasked ==
    /\ pc = "done"
    /\ args.pixels = <<2, 0, 1>>
    /\ args.pix_raster = <<3, 0>>
    /\ ret.mask = <<TRUE, FALSE>>
    /\ ret.values_raster = <<0, 102>>

----------------------------------------------------------------------------
(* hpx_utils.py: healpix_bin.  pix is what angle_to_pixel returns for the  *)
(* samples; the map has the pixels 0..NPixels-1.                           *)

\* hpg.UNSEEN (-1.6375e30): a value no count and no mean of the model takes.
UNSEEN == [num |-> -16375, den |-> 1]

Zeros == [p \in 0..(NPixels - 1) |-> 0]

\* arr[pix] += vals, which keeps one addition for each index that occurs:
\* the last one.
AddBuffered(arr, pix, vals) ==
    [p \in DOMAIN arr |->
        IF \E k \in 1..Len(pix) : pix[k] = p
        THEN arr[p] + vals[CHOOSE k \in 1..Len(pix) :
                             pix[k] = p /\ \A j \in (k + 1)..Len(pix) : pix[j] # p]
        ELSE arr[p]]

RECURSIVE AddAtFrom(_, _, _, _)
AddAtFrom(arr, pix, vals, k) ==
    IF k > Len(pix) THEN arr
    ELSE AddAtFrom([arr EXCEPT ![pix[k]] = @ + vals[k]], pix, vals, k + 1)

\* np.add.at(arr, pix, vals): every sample adds, repeated indices too.
AddAt(arr, pix, vals) == AddAtFrom(arr, pix, vals, 1)

HealpixBin(pix, C) ==
    LET count == AddAt(Zeros, pix, [k \in 1..Len(pix) |-> 1])
        good == {p \in DOMAIN count : count[p] > 0}
        sums == IF C = None THEN Zeros ELSE AddAt(Zeros, pix, C[1])
    IN  [p \in DOMAIN count |->
            IF p \notin good THEN UNSEEN
            ELSE IF C = None THEN FracOfInt(count[p])
            ELSE Frac(sums[p], count[p])]

BinValues == {-3, 1, 2}

InitBin ==
    /\ HelperIdle
    /\ pc = "start"
    /\ ret = <<>>
    /\ \E pix \in SeqsUpTo(0..(NPixels - 1), MaxSamples) :
         \E C \in {None} \cup {Some(v) : v \in [1..Len(pix) -> BinValues]} :
            args = [pix |-> pix, C |-> C]

HealpixBinCall == Done(HealpixBin(args.pix, args.C))

SpecBin == InitBin /\ [][HealpixBinCall]_vars

RECURSIVE SumOver(_, _)
\* The sum of vals over the set of indices K.
SumOver(K, vals) ==
    IF K = {} THEN 0
    ELSE LET k == CHOOSE j \in K : TRUE
         IN  vals[k] + SumOver(K \ {k}, vals)

\* C9: every pixel hit by at least one sample holds the mean of the values
\* of all the samples in it when values are given, and the number of those
\* samples when not; every pixel hit by none holds UNSEEN.  N samples at
\* one place, without values, give N there and UNSEEN elsewhere.
C9_HealpixBin ==
    pc = "done" =>
        \A p \in 0..(NPixels - 1) :
            LET hits == {k \in 1..Len(args.pix) : args.pix[k] = p}
            IN  IF hits = {} THEN ret[p] = UNSEEN
                ELSE IF args.C = None THEN ret[p] = FracOfInt(Cardinality(hits))
                ELSE ret[p].num * Cardinality(hits) = SumOver(hits, args.C[1]) * ret[p].den

C9_Witness ==
    /\ pc = "done"
    /\ args.pix = <<1, 1, 1>>
    /\ args.C = None
    /\ ret[1] = FracOfInt(3)
    /\ \A p \in 0..(NPixels - 1) : p # 1 => ret[p] = UNSEEN

C9_MeanOfRepeated ==
    /\ pc = "done"
    /\ args.pix = <<2, 0, 2>>
    /\ args.C = Some(<<1, -3, 2>>)
    /\ ret[2] = [num |-> 3, den |-> 2]

----------------------------------------------------------------------------
(* hpx_utils.py: the mesh and the cell centres of the three rasterizers    *)
(* (lines 95-100, 145-150, 196-201) and the shape of what they return.     *)
(* A 2-d array is the sequence of its rows.                                *)

\* The row count rounded up.
MeshRowsCeil(aspect, xsize) == Ceil(Frac(aspect.num * xsize, aspect.den))

\* int(aspect*xsize), for aspect >= 0: the product with its fraction cut off.
MeshRows(aspect, xsize) == (aspect.num * xsize) \div aspect.den

\* np.linspace(lo, hi, n)
Linspace(lo, hi, n) ==
    IF n = 1 THEN <<FracOfInt(lo)>>
    ELSE [i \in 1..n |-> Frac(lo * (n - 1) + (i - 1) * (hi - lo), n - 1)]

\* (p + q) / 2
Mid(p, q) == Frac(p.num * q.den + q.num * p.den, 2 * p.den * q.den)

\* np.meshgrid(xs, ys): two arrays of Len(ys) rows and Len(xs) columns.
MeshgridX(xs, ys) == [r \in 1..Len(ys) |-> xs]
MeshgridY(xs, ys) == [r \in 1..Len(ys) |-> [c \in 1..Len(xs) |-> ys[r]]]

\* (a[1:, 1:] + a[:-1, :-1]) / 2, a having rows rows and cols columns
Centres(a, rows, cols) ==
    [r \in 1..(rows - 1) |-> [c \in 1..(cols - 1) |-> Mid(a[r + 1][c + 1], a[r][c])]]

Rasterizers == {"hspmap_to_xy", "hpxmap_to_xy", "healpix_to_xy"}

\* What a rasterizer builds and returns; the pixel array healpix_to_xy is
\* given is unique and not empty.
Rasterize(fn, lon_range, lat_range, xsize, aspect) ==
    LET xs == Linspace(lon_range[1], lon_range[2], xsize)
        ys == Linspace(lat_range[1], lat_range[2], MeshRows(aspect, xsize))
        rows == Len(ys)
        cols == Len(xs)
        lon_raster == MeshgridX(xs, ys)
        lat_raster == MeshgridY(xs, ys)
        shape == <<Max2(rows - 1, 0), Max2(cols - 1, 0)>>
    IN  [exc |-> IF fn = "healpix_to_xy" /\ shape[1] * shape[2] = 0
                 THEN \* pix_raster.max() at line 208
                      "ValueError: zero-size array to reduction operation maximum"
                 ELSE "none",
         mesh_shape |-> <<rows, cols>>,
         lon_raster |-> lon_raster,
         lat_raster |-> lat_raster,
         clon |-> Centres(lon_raster, rows, cols),
         clat |-> Centres(lat_raster, rows, cols),
         shape |-> shape]

Aspects == {[num |-> 1, den |-> 2], [num |-> 7, den |-> 10], [num |-> 1, den |-> 1],
            [num |-> 3, den |-> 2]}

InitRaster ==
    /\ HelperIdle
    /\ pc = "start"
    /\ ret = <<>>
    /\ \E fn \in Rasterizers : \E xsize \in 0..MaxXsize : \E aspect \in Aspects :
         \E lon_range \in {<<0, 12>>, <<-6, 6>>} :
            args = [fn |-> fn, lon_range |-> lon_range, lat_range |-> <<0, 6>>,
                    xsize |-> xsize, aspect |-> aspect]

RasterizeCall ==
    Done(Rasterize(args.fn, args.lon_range, args.lat_range, args.xsize, args.aspect))

SpecRaster == InitRaster /\ [][RasterizeCall]_vars

\* The array returned has one row and one column fewer than the mesh, and
\* its cells are sampled half way between adjacent nodes of the mesh.
OneFewerAtMidpoints ==
    /\ ret.shape = <<ret.mesh_shape[1] - 1, ret.mesh_shape[2] - 1>>
    /\ Len(ret.clon) = ret.shape[1] /\ Len(ret.clat) = ret.shape[1]
    /\ \A r \in 1..ret.shape[1] :
         /\ Len(ret.clon[r]) = ret.shape[2] /\ Len(ret.clat[r]) = ret.shape[2]
         /\ \A c \in 1..ret.shape[2] :
              /\ ret.clon[r][c] = Mid(ret.lon_raster[r][c], ret.lon_raster[r][c + 1])
              /\ ret.clat[r][c] = Mid(ret.lat_raster[r][c], ret.lat_raster[r + 1][c])

\* C10 as stated: for every xsize and aspect each rasterizer builds a mesh
\* of xsize columns and round(aspect * xsize) rows (a nearest integer), and
\* returns an array with one row and one column fewer, sampled at the
\* midpoints of the mesh.
C10_MeshRounded ==
    pc = "done" =>
        /\ ret.mesh_shape[2] = args.xsize
        /\ 2 * Abs(ret.mesh_shape[1] * args.aspect.den - args.aspect.num * args.xsize)
             <= args.aspect.den
        /\ ret.exc = "none"
        /\ OneFewerAtMidpoints

\* C10 as amended: the mesh has xsize columns and int(aspect * xsize) rows,
\* the product cut off and not rounded; when the mesh has at least one row
\* and one column, an array that is returned has one row and one column
\* fewer, sampled at the midpoints, and a mesh with no row or no column
\* gives an array with none; healpix_to_xy raises exactly when that array
\* would have no cell, and the other two never raise.
C10_MeshTruncated ==
    pc = "done" =>
        LET rows == ret.mesh_shape[1]
            cols == ret.mesh_shape[2]
        IN  /\ cols = args.xsize
            /\ rows * args.aspect.den <= args.aspect.num * args.xsize
            /\ args.aspect.num * args.xsize < (rows + 1) * args.aspect.den
            /\ ret.exc = "none" =>
                 /\ ret.shape = <<Max2(rows - 1, 0), Max2(cols - 1, 0)>>
                 /\ (rows >= 1 /\ cols >= 1) => OneFewerAtMidpoints
            /\ ret.exc # "none" <=>
                 args.fn = "healpix_to_xy" /\ (rows <= 1 \/ cols <= 1)

C10_Witness ==
    /\ pc = "done"
    /\ args.aspect = [num |-> 7, den |-> 10]
    /\ args.xsize = 4
    /\ ret.exc = "none"
    /\ ret.mesh_shape = <<2, 4>>
    /\ ret.shape = <<1, 3>>

----------------------------------------------------------------------------
(* hpx_utils.py: healpix_to_xy statement by statement, lines 192-220: the  *)
(* uniqueness test, the mesh, the search and the masked array, each a step *)
(* of its own.  ret grows with what the call has built so far.             *)

\* The uniqueness test that looks at neighbours only.
AdjacentRepeats(pixels) == \E i \in 1..(Len(pixels) - 1) : pixels[i] = pixels[i + 1]

\* Lines 192-193: np.unique(pixels).size != pixels.size
NotUnique(pixels) == Cardinality({pixels[i] : i \in 1..Len(pixels)}) # Len(pixels)

UniqueError == "ValueError: The pixels array must be unique."

\* Nothing built yet.
NothingBuilt == [exc |-> "none", mesh |-> None, sub1 |-> <<>>, mask |-> <<>>,
                 values_raster |-> <<>>]

\* The call's mesh has 2 rows and one column more than the raster has
\* cells, so that its centres are the cells of pix_raster.
InitToXY ==
    /\ HelperIdle
    /\ pc = "start"
    /\ ret = NothingBuilt
    /\ \E pixels \in SeqsUpTo(PixelIds, MaxPix) : \E pix_raster \in SeqsUpTo(PixelIds, MaxRaster) :
          args = [pixels |-> pixels, values |-> ValuesOf(pixels), pix_raster |-> pix_raster,
                  lon_range |-> <<0, 12>>, lat_range |-> <<0, 6>>,
                  xsize |-> Len(pix_raster) + 1,
                  aspect |-> Frac(2, Len(pix_raster) + 1)]

\* Lines 192-194.
CheckUnique ==
    /\ pc = "start"
    /\ IF NotUnique(args.pixels)
       THEN pc' = "done" /\ ret' = [ret EXCEPT !.exc = UniqueError]
       ELSE pc' = "checked" /\ ret' = ret
    /\ UNCHANGED args
    /\ UNCHANGED helper_vars

\* Lines 196-203.
BuildMesh ==
    /\ pc = "checked"
    /\ pc' = "meshed"
    /\ LET xs == Linspace(args.lon_range[1], args.lon_range[2], args.xsize)
           ys == Linspace(args.lat_range[1], args.lat_range[2],
                          MeshRows(args.aspect, args.xsize))
           lon_raster == MeshgridX(xs, ys)
           lat_raster == MeshgridY(xs, ys)
       IN  ret' = [ret EXCEPT !.mesh =
                     Some([lon_raster |-> lon_raster, lat_raster |-> lat_raster,
                           clon |-> Centres(lon_raster, Len(ys), Len(xs)),
                           clat |-> Centres(lat_raster, Len(ys), Len(xs))])]
    /\ UNCHANGED args
    /\ UNCHANGED helper_vars

\* Lines 205-213.
Search ==
    /\ pc = "meshed"
    /\ IF Len(args.pix_raster) = 0 \/ Len(args.pixels) = 0
       THEN /\ pc' = "done"
            /\ ret' = [ret EXCEPT !.exc =
                         "ValueError: zero-size array to reduction operation maximum"]
       ELSE LET sub1 == Sub1(args.pixels, Argsort(args.pixels), args.pix_raster)
            IN  IF \E c \in 1..Len(args.pix_raster) : sub1[c] >= Len(args.pixels)
                THEN pc' = "done" /\ ret' = [ret EXCEPT !.exc = "IndexError"]
                ELSE pc' = "searched" /\ ret' = [ret EXCEPT !.sub1 = sub1]
    /\ UNCHANGED args
    /\ UNCHANGED helper_vars

\* Lines 212-220.
Fill ==
    /\ pc = "searched"
    /\ pc' = "done"
    /\ LET st == Argsort(args.pixels)
           cells == 1..Len(args.pix_raster)
           hit == {c \in cells : args.pixels[st[ret.sub1[c] + 1]] = args.pix_raster[c]}
       IN  ret' = [ret EXCEPT
                     !.mask = [c \in cells |-> c \notin hit],
                     !.values_raster = [c \in cells |->
                         IF c \in hit THEN args.values[st[ret.sub1[c] + 1]] ELSE 0]]
    /\ UNCHANGED args
    /\ UNCHANGED helper_vars

NextToXY == CheckUnique \/ BuildMesh \/ Search \/ Fill

SpecToXY == InitToXY /\ [][NextToXY]_vars

\* C11: with a repeated pixel id healpix_to_xy fails with the validation
\* ValueError before it has built a mesh, searched a pixel or allocated the
\* output, and returns nothing; with a duplicate-free array it never
\* raises that error.
C11_DuplicatesRejectedFirst ==
    /\ ~IsUnique(args.pixels) =>
         /\ pc \in {"start", "done"}
         /\ pc = "done" => ret.exc = UniqueError
         /\ ret.mesh = None /\ ret.sub1 = <<>> /\ ret.mask = <<>> /\ ret.values_raster = <<>>
    /\ IsUnique(args.pixels) => ret.exc # UniqueError

C11_Witness ==
    /\ pc = "done"
    /\ args.pixels = <<2, 0, 2>>
    /\ Len(args.pix_raster) = 2
    /\ ret = [NothingBuilt EXCEPT !.exc = UniqueError]

\* A duplicate-free call runs to the masked array.
C11_UniqueReturns ==
    pc = "done" /\ args.pixels = <<2, 0, 3>> /\ ret.exc = "none" /\ ret.mask = <<FALSE, TRUE>>

\* The steps build what the lookup as one function returns.
C11_StepsAgree ==
    pc = "done" =>
        LET r == HealpixToXYLookup(args.pixels, args.values, args.pix_raster)
        IN  ret.exc = r.exc /\ ret.mask = r.mask /\ ret.values_raster = r.values_raster

----------------------------------------------------------------------------
(* Claims about the ticks and the cache of the helper, checked under Spec. *)

\* gi["ticks"][side] for side 1..4 of SideNames.
TicksAt(info, s) ==
    CASE s = 1 -> info.ticks.left
      [] s = 2 -> info.ticks.right
      [] s = 3 -> info.ticks.bottom
      [] s = 4 -> info.ticks.top

\* How many ticks of line k the grid info holds on side s.
TickCount(info, s, k) ==
    Cardinality({t \in 1..Len(TicksAt(info, s)) : TicksAt(info, s)[t].level = k})

\* The box the ticks of the stored grid info were looked for in.
StoredBox ==
    Expanded(BboxFromExtents(old_limits[1][1], old_limits[1][3],
                             old_limits[1][2], old_limits[1][4]))

\* The segments of a line that cross side s, and those of them that are
\* no jump: the ones left when the line is cut first.
RawCrossings(line, s) == CrossingSegments(ColumnStack(line), StoredBox, s)
CutCrossings(line, s) == {i \in RawCrossings(line, s) : ~JumpsAt(line, delta_cut, i)}

\* C12: the ticks stored in the grid info are the crossings of the cut
\* lines: a line has as many ticks on a side as it has segments crossing
\* it that are no jump, so that no tick lies on a segment whose ends are
\* farther apart than delta_cut.
C12_CutBeforeCrossings ==
    grid_info # None =>
        \A s \in 1..4 :
           /\ \A k \in 1..Len(grid_info[1].lon.lines) :
                TickCount(grid_info[1].lon, s, k)
                  = Cardinality(CutCrossings(grid_info[1].lon.lines[k], s))
           /\ \A k \in 1..Len(grid_info[1].lat.lines) :
                TickCount(grid_info[1].lat, s, k)
                  = Cardinality(CutCrossings(grid_info[1].lat.lines[k], s))

\* What the code does instead: the ticks are the crossings of the raw
\* lines, jumps included.
C12_TicksOfRawLines ==
    grid_info # None =>
        \A s \in 1..4 :
           /\ \A k \in 1..Len(grid_info[1].lon.lines) :
                TickCount(grid_info[1].lon, s, k)
                  = Cardinality(RawCrossings(grid_info[1].lon.lines[k], s))
           /\ \A k \in 1..Len(grid_info[1].lat.lines) :
                TickCount(grid_info[1].lat, s, k)
                  = Cardinality(RawCrossings(grid_info[1].lat.lines[k], s))

\* A tick on the jump of the line over the seam.
C12_TickOnJump ==
    /\ grid_info # None
    /\ \E k \in 1..Len(grid_info[1].lat.lines) :
         /\ grid_info[1].lat.lines[k] = SeamLine
         /\ 2 \in RawCrossings(SeamLine, 1)
         /\ JumpsAt(SeamLine, delta_cut, 2)
         /\ TickCount(grid_info[1].lat, 1, k) = 1

\* A step that is a call of get_gridlines.
GetGridlinesStep == last'.op = "get_gridlines" /\ hist'.calls = hist.calls + 1

\* The stored grid info is one that get_grid_info computes for the stored
\* limits.
ComputedForStoredLimits ==
    \E axis \in Axes : \E ext \in Externals(axis) :
       /\ Limits(axis) = old_limits[1]
       /\ grid_info[1] = GetGridInfo(old_limits[1][1], old_limits[1][3],
                                     old_limits[1][2], old_limits[1][4], ext)

\* C13: in every state reached by calls of update_lim and get_gridlines,
\* those of update_lim that raise part-way included, _old_limits is None
\* exactly when _grid_info is None, and otherwise _grid_info is the grid
\* info computed for the viewport stored in _old_limits; get_gridlines
\* changes neither of them.
C13_CacheCoherent ==
    /\ []((old_limits = None <=> grid_info = None)
          /\ (grid_info # None => ComputedForStoredLimits))
    /\ [][GetGridlinesStep => UNCHANGED <<grid_info, old_limits>>]_vars

\* An update has raised in get_grid_info after an earlier one succeeded
\* with other limits: the locators are new, the cache is the earlier
\* update's.
C13_Witness ==
    /\ last.op = "update_lim"
    /\ last.exc = "CollaboratorError"
    /\ grid_info # None
    /\ old_limits = Some(<<0, 50, 40, 80>>)
    /\ last.limits = <<-100, 100, -50, 50>>

\* get_gridlines has returned lines and the cache is there.
C13_GetGridlinesKeepsCache ==
    /\ last.op = "get_gridlines"
    /\ last.exc = "none"
    /\ Len(last.lines) = 2
    /\ grid_info # None

====
